---- MODULE Spec2Model ----
\* A model of docs/docsify-auto-headers.js: the docsify plugin that numbers the
\* headings of a page from a signifier found on the page's first line.
\*
\* Strings are sequences of one-character strings, so that split, join, trim,
\* parseInt and number-to-string conversion are computed as the code computes
\* them.  A page is a sequence of lines.  JavaScript's undefined is written as
\* a field of its own (defined |-> FALSE), or as the empty string where the
\* code only ever hands the value to parseInt.
EXTENDS Integers, Sequences, FiniteSets, TLC

\* ---------------------------------------------------------------- bounds

\* Pages the site serves one after the other.
MaxDocs == 2
\* Body lines (after the first line) of a page of the lifecycle specification.
MaxLines == 2
\* Tokens of a signifier of the lifecycle specification.
MaxTokens == 2
\* Headings of a page of the rendering specification.
MaxHeadings == 5
\* Tokens of a signifier of the rendering specification.
MaxSeedTokens == 3
\* Tokens of a signifier of the seeding specification: one more than the
\* levels there are.
MaxSeedLen == 7
\* Largest number tried as levels, start or finish: one more than the levels
\* there are.
MaxBound == 7
\* Headings of a page of the level specification.
MaxScopeLines == 2
\* Body lines of a page of the line specification.
MaxTextLines == 3

\* ------------------------------------------------------------- constants

\* h1..h6
NumLevels == 6

Levels == 1..NumLevels

\* ---------------------------------------------------------------- strings

Digits == <<"0", "1", "2", "3", "4", "5", "6", "7", "8", "9">>

IsDigit(c) == \E i \in 1..10 : Digits[i] = c

DigitVal(c) == (CHOOSE i \in 1..10 : Digits[i] = c) - 1

IsLetter(c) == c \in {"A", "B", "C", "D", "a", "b"}

\* /^\d+$/
isAllNumeric(str) == Len(str) > 0 /\ \A i \in 1..Len(str) : IsDigit(str[i])

\* /^[a-zA-Z]+$/
isAllAlphabetic(str) == Len(str) > 0 /\ \A i \in 1..Len(str) : IsLetter(str[i])

\* The characters the signifier pattern captures: [\d.a-zA-Z\-:,~]
IsSignifierChar(c) == IsDigit(c) \/ IsLetter(c) \/ c \in {".", "-", ":", ",", "~"}

RECURSIVE NatToStr(_)
\* Number.prototype.toString of a natural number
NatToStr(n) ==
    IF n < 10 THEN <<Digits[n + 1]>>
    ELSE NatToStr(n \div 10) \o <<Digits[(n % 10) + 1]>>

\* The string Array.prototype.join gives a number
NumToStr(n) == IF n < 0 THEN <<"-">> \o NatToStr(0 - n) ELSE NatToStr(n)

RECURSIVE Join(_, _)
\* Array.prototype.join
Join(parts, sep) ==
    IF parts = <<>> THEN <<>>
    ELSE IF Len(parts) = 1 THEN parts[1]
    ELSE parts[1] \o sep \o Join(Tail(parts), sep)

RECURSIVE SplitChar(_, _, _)
\* String.prototype.split on a one-character separator; cur is the element
\* being collected
SplitChar(str, c, cur) ==
    IF str = <<>> THEN <<cur>>
    ELSE IF Head(str) = c THEN <<cur>> \o SplitChar(Tail(str), c, <<>>)
    ELSE SplitChar(Tail(str), c, Append(cur, Head(str)))

\* String.prototype.split: the empty separator splits into characters
Split(str, sep) ==
    IF sep = <<>> THEN [i \in 1..Len(str) |-> <<str[i]>>]
    ELSE SplitChar(str, sep[1], <<>>)

\* parseInt(str, 10) as the plugin uses it: the value of the leading digits,
\* and NaN (defined |-> FALSE) when there is none.  The empty string stands
\* for undefined, which parseInt turns into NaN as well.
RECURSIVE DigitsValue(_, _)
DigitsValue(str, acc) ==
    IF str = <<>> \/ ~IsDigit(Head(str)) THEN acc
    ELSE DigitsValue(Tail(str), 10 * acc + DigitVal(Head(str)))

parseInt(str) ==
    IF str # <<>> /\ IsDigit(Head(str))
    THEN [finite |-> TRUE, value |-> DigitsValue(str, 0)]
    ELSE [finite |-> FALSE, value |-> 0]

\* ----------------------------------------------------------- exceptions

\* What a call does besides returning: thrown is the message of the exception
\* it throws, or "" when it returns normally.
ReferenceError == "ReferenceError: options is not defined"

TypeError == "TypeError"

\* showErrorMessage (lines 42-44) where the name `options` is bound: inside
\* setDefaultOptions (its parameter) and inside the hooks (the closure's
\* variable).
showErrorMessage(shouldShow, message) == IF shouldShow THEN message ELSE ""

\* The validators of lines 67-142 are declared beside autoHeaders, not inside
\* it, and `let options` (line 249) is local to autoHeaders: in the validators
\* the name `options` is bound to nothing.
OptionsBoundInValidators == FALSE

\* showErrorMessage(options.debug, message) written in a validator:
\* evaluating the argument `options.debug` throws before showErrorMessage is
\* entered.
showErrorMessageInValidator(debug, message) ==
    IF OptionsBoundInValidators THEN showErrorMessage(debug, message)
    ELSE ReferenceError

\* -------------------------------------------------------- configuration

\* window.$docsify.autoHeaders merged over the defaults (lines 5-15, 344-347).
\* levels is a number, an object {start, finish} (numeric tells whether both
\* bounds are numbers), a string or undefined.
NumberSpec(n) ==
    [type |-> "number", n |-> n, start |-> 0, finish |-> 0, numeric |-> TRUE]

ObjectSpec(s, f) ==
    [type |-> "object", n |-> 0, start |-> s, finish |-> f, numeric |-> TRUE]

NonNumericObjectSpec ==
    [type |-> "object", n |-> 0, start |-> 0, finish |-> 0, numeric |-> FALSE]

StringSpec ==
    [type |-> "string", n |-> 0, start |-> 0, finish |-> 0, numeric |-> TRUE]

UndefinedSpec ==
    [type |-> "undefined", n |-> 0, start |-> 0, finish |-> 0, numeric |-> TRUE]

\* separatorMap (lines 51-59)
separatorMap(name) ==
    IF name \in {"decimal", "dot"} THEN <<".">>
    ELSE IF name \in {"dash", "hyphen"} THEN <<"-">>
    ELSE IF name \in {"bracket", "parenthesis"} THEN <<")">>
    ELSE <<>>

\* The configured separator as a string: a name of separatorMap, one literal
\* character, or "" (not set).
SeparatorText(name) ==
    IF name = "" THEN <<>>
    ELSE IF separatorMap(name) # <<>> THEN separatorMap(name)
    ELSE <<name>>

\* setDefaultOptions (lines 46-65).  sidebar is "true", "false" or another
\* truthy value.
setDefaultOptions(o) ==
    [thrown |->
        IF o.separator = "" \/ o.levels.type = "undefined"
        THEN showErrorMessage(o.debug, "configurationNotSetCorrectly")
        ELSE "",
     separator |-> SeparatorText(o.separator),
     levels |->
        IF o.levels.type = "undefined" \/ (o.levels.type = "number" /\ o.levels.n = 0)
        THEN NumberSpec(6)
        ELSE o.levels,
     sidebar |-> o.sidebar # "false",
     debug |-> o.debug]

\* validateAndReturnSidebar (lines 67-73): its input is the boolean that
\* setDefaultOptions made, so the failing branch is never taken.
validateAndReturnSidebar(input) == [thrown |-> "", value |-> input]

\* isInRange with >= written as >: the lower end is left out.
isInRangeAboveMin(value, min, max) == value > min /\ value <= max

isInRange(value, min, max) == value >= min /\ value <= max

\* --------------------------------------------------------- level ranges

\* The entry of one heading level in a configuration table: inScope from the
\* level range, counter the start token ("" while the table has none).
LevelEntry(inScope, counter) == [inScope |-> inScope, counter |-> counter]

\* validateAndGetHeadingRange (lines 75-109).  Every failing check reaches
\* showErrorMessage through the unbound `options`.
validateAndGetHeadingRange(input, debug) ==
    LET start == IF input.type = "number" THEN 1 ELSE input.start
        finish == IF input.type = "number" THEN input.n ELSE input.finish
        e1 == IF input.type \notin {"number", "object"}
              THEN showErrorMessageInValidator(debug, "invalidHeadingLevels")
              ELSE ""
        e2 == IF input.type = "object" /\ ~input.numeric
              THEN showErrorMessageInValidator(debug, "nonNumericValue")
              ELSE ""
        e3 == IF input.type = "object" /\ input.numeric /\ start > finish
              THEN showErrorMessageInValidator(debug, "invalidHeadingLevelOrder")
              ELSE ""
        e4 == IF input.type \in {"number", "object"} /\ input.numeric
                 /\ (~isInRange(start, 1, 6) \/ ~isInRange(finish, 1, 6))
              THEN showErrorMessageInValidator(debug, "headingLevelRange")
              ELSE ""
        thrown == IF e1 # "" THEN e1 ELSE IF e2 # "" THEN e2
                  ELSE IF e3 # "" THEN e3 ELSE e4
    IN  [thrown |-> thrown,
         headings |->
            [i \in Levels |->
                LevelEntry(input.type \in {"number", "object"} /\ input.numeric
                           /\ isInRange(i, start, finish), <<>>)]]

\* ------------------------------------------------------------ signifier

\* PadElements with the test of isNumeric lost: every missing level gets "1".
PadElementsWithOnes(elements, isNumeric) ==
    elements \o [i \in 1..(IF Len(elements) < NumLevels
                           THEN NumLevels - Len(elements) ELSE 0)
                 |-> <<"1">>]

\* The padding loop of getStartingValues (lines 123-125)
PadElements(elements, isNumeric) ==
    elements \o [i \in 1..(IF Len(elements) < NumLevels
                           THEN NumLevels - Len(elements) ELSE 0)
                 |-> IF isNumeric THEN <<"1">> ELSE <<"A">>]

\* getStartingValues (lines 111-133).  The tokens are never padded with
\* blanks in the pages generated here, so trim is the identity on them.
getStartingValues(headerNumbers, separator, debug) ==
    LET elements == Split(headerNumbers, separator)
        isNumeric == \A i \in 1..Len(elements) : isAllNumeric(elements[i])
        isAlphabetic == \A i \in 1..Len(elements) : isAllAlphabetic(elements[i])
        padded == PadElements(elements, isNumeric)
    IN  [thrown |->
            IF ~(isNumeric \/ isAlphabetic)
            THEN showErrorMessageInValidator(debug, "invalidHeadingLevels")
            ELSE "",
         startingValues |-> [i \in Levels |-> padded[i]]]

\* ---------------------------------------------------------------- pages

\* A line of a page.  A signifier line holds the characters the pattern of
\* checkAutoHeader captures in body; a heading line holds its number of
\* hashes, its text in body, and in label the counter string the render put
\* before the text ("" when it put none); a line of hashes holds its number of
\* hashes and nothing after them.
Line(kind, hashes, label, body) ==
    [kind |-> kind, hashes |-> hashes, label |-> label, body |-> body]

SignifierLine(raw) == Line("sig", 0, <<>>, raw)

BlankLine == Line("blank", 0, <<>>, <<>>)

TextLine == Line("text", 0, <<>>, <<"x">>)

HeadingLine(level) == Line("heading", level, <<>>, <<"T">>)

HashesLine(level) == Line("hashes", level, <<>>, <<>>)

\* The characters of a line, as a group of a pattern captures them
LineText(line) ==
    LET hashes == [i \in 1..line.hashes |-> "#"]
    IN  IF line.kind = "heading"
        THEN hashes \o <<" ">>
             \o (IF line.label = <<>> THEN <<>> ELSE line.label \o <<" ">>)
             \o line.body
        ELSE IF line.kind = "hashes" THEN hashes
        ELSE IF line.kind = "sig"
        THEN <<"@", "a", "u", "t", "o", "H", "e", "a", "d", "e", "r", ":">>
             \o line.body
        ELSE line.body

\* A value a hook passes on: a page, or undefined.
Page(lines) == [defined |-> TRUE, lines |-> lines]

Undefined == [defined |-> FALSE, lines |-> <<>>]

RECURSIVE TrimStart(_)
\* String.prototype.trim at the start of a page: leading blank lines go
TrimStart(lines) ==
    IF lines # <<>> /\ Head(lines).kind = "blank" THEN TrimStart(Tail(lines))
    ELSE lines

RECURSIVE CapturedPrefix(_)
\* The group ([\d.a-zA-Z\-:,~]+) of autoHeaderPattern (line 136): the longest
\* run of signifier characters after the anchor
CapturedPrefix(str) ==
    IF str # <<>> /\ IsSignifierChar(Head(str))
    THEN <<Head(str)>> \o CapturedPrefix(Tail(str))
    ELSE <<>>

\* checkAutoHeader (lines 135-142): the pattern is anchored at the start of
\* the trimmed text.  Without a match the error call throws; had it returned,
\* match[1] of null would throw.
checkAutoHeader(markdown, debug) ==
    LET trimmed == TrimStart(markdown)
        captured == IF trimmed # <<>> /\ Head(trimmed).kind = "sig"
                    THEN CapturedPrefix(Head(trimmed).body)
                    ELSE <<>>
        match == captured # <<>>
        shown == showErrorMessageInValidator(debug, "missingAutoHeaderSignifier")
    IN  [thrown |-> IF match THEN "" ELSE IF shown # "" THEN shown ELSE TypeError,
         signifier |-> captured]

\* markdown.split('\n').slice(1).join('\n') (line 288)
DropFirstLine(lines) == IF lines = <<>> THEN <<>> ELSE Tail(lines)

\* -------------------------------------------------------- counter state

CounterEntry(reset, current) == [reset |-> reset, current |-> current]

\* The start value createCountContextObjects gives a counter (lines 148-149)
StartCounter(counter) ==
    IF parseInt(counter).finite THEN parseInt(counter).value - 1 ELSE 0

\* createCountContextObjects (lines 144-160)
createCountContextObjects(levels) ==
    [currentCounts |->
        [i \in Levels |->
            CounterEntry(StartCounter(levels[i].counter),
                         StartCounter(levels[i].counter))],
     scopedTagNames |-> {i \in Levels : levels[i].inScope}]

\* AdvanceText with the reset of line 206 written on the heading's own
\* level as well.
AdvanceTextClearingOwnReset(currentCounts, headingLevel) ==
    [i \in Levels |->
        IF i > headingLevel
        THEN [reset |-> 0, current |-> currentCounts[i].reset]
        ELSE IF i = headingLevel
        THEN [reset |-> 0, current |-> currentCounts[i].current + 1]
        ELSE currentCounts[i]]

\* AdvanceText with line 206 lost: a deeper level keeps its reset value.
AdvanceTextKeepingReset(currentCounts, headingLevel) ==
    [i \in Levels |->
        IF i > headingLevel
        THEN [reset |-> currentCounts[i].reset, current |-> currentCounts[i].reset]
        ELSE IF i = headingLevel
        THEN [reset |-> currentCounts[i].reset,
              current |-> currentCounts[i].current + 1]
        ELSE currentCounts[i]]

\* The reset of the levels below a heading and the increment of its own
\* count, in parseMarkdown (lines 201-212)
AdvanceText(currentCounts, headingLevel) ==
    [i \in Levels |->
        IF i > headingLevel
        THEN CounterEntry(0, currentCounts[i].reset)
        ELSE IF i = headingLevel
        THEN CounterEntry(currentCounts[i].reset, currentCounts[i].current + 1)
        ELSE currentCounts[i]]

\* CounterText with the separator of line 217 put between the counts only.
CounterTextJoinedOnly(currentCounts, headingLevel, separator) ==
    Join([i \in 1..headingLevel |-> NumToStr(currentCounts[i].current)],
         separator)

\* The counter string of parseMarkdown (lines 215-217)
CounterText(currentCounts, headingLevel, separator) ==
    Join([i \in 1..headingLevel |-> NumToStr(currentCounts[i].current)],
         separator) \o separator

\* ScopedHas with the membership test lost: every heading is labeled.
ScopedHasAlways(scopedTagNames, headingLevel) == headingLevel \in Levels

\* Whether a heading gets a counter string (line 214)
ScopedHas(scopedTagNames, headingLevel) == headingLevel \in scopedTagNames

\* headingPattern (line 194), /^(#{1,6})\s+(.*)$/, on a line that has its
\* text after the hashes: \s+ takes the blanks between them and (.*) the text.
MatchesHeadingPattern(line) == line.kind = "heading" /\ line.hashes \in 1..6

\* The last line of the match of headingPattern that starts at line i, or 0
\* when none starts there.  After a line of hashes alone \s+ takes the line
\* end, for a line end is white space, and every blank line that follows; (.*)
\* then takes the next line that is not blank, whatever it holds, or nothing
\* at the end of the text.  At the very end of the text \s+ finds nothing.
MatchEnd(lines, i) ==
    IF MatchesHeadingPattern(lines[i]) THEN i
    ELSE IF lines[i].kind = "hashes" /\ lines[i].hashes \in 1..6 /\ i < Len(lines)
    THEN IF \E j \in (i + 1)..Len(lines) : lines[j].kind # "blank"
         THEN CHOOSE j \in (i + 1)..Len(lines) :
                 /\ lines[j].kind # "blank"
                 /\ \A k \in (i + 1)..(j - 1) : lines[k].kind = "blank"
         ELSE Len(lines)
    ELSE 0

\* The group `text` of a match: what follows the hashes and the white space
MatchText(match) ==
    IF Len(match) = 1 THEN match[1].body ELSE LineText(match[Len(match)])

\* The replacement the callback of parseMarkdown returns for a match, given
\* the counts it has advanced (lines 214-221): one line of hashes, counter
\* string and text, or the match as it is
ReplaceMatch(match, currentCounts, scopedTagNames, separator) ==
    IF ScopedHas(scopedTagNames, match[1].hashes)
    THEN <<Line("heading", match[1].hashes,
                CounterText(currentCounts, match[1].hashes, separator),
                MatchText(match))>>
    ELSE match

RECURSIVE ReplaceAll(_, _, _, _)
\* markdown.replace(headingPattern, callback) (lines 197-222) as a whole: the
\* callback runs on the matches in source order, on one counter state
ReplaceAll(lines, currentCounts, scopedTagNames, separator) ==
    IF lines = <<>> THEN <<>>
    ELSE IF MatchEnd(lines, 1) # 0
    THEN ReplaceMatch(SubSeq(lines, 1, MatchEnd(lines, 1)),
                      AdvanceText(currentCounts, Head(lines).hashes),
                      scopedTagNames, separator)
         \o ReplaceAll(SubSeq(lines, MatchEnd(lines, 1) + 1, Len(lines)),
                       AdvanceText(currentCounts, Head(lines).hashes),
                       scopedTagNames, separator)
    ELSE <<Head(lines)>> \o ReplaceAll(Tail(lines), currentCounts, scopedTagNames,
                                       separator)

\* parseMarkdown (lines 192-225)
parseMarkdown(markdown, separator, levels) ==
    ReplaceAll(markdown, createCountContextObjects(levels).currentCounts,
               createCountContextObjects(levels).scopedTagNames, separator)

\* The same reset and increment in applyCurrentCountThroughBoundContext
\* (lines 167-178)
AdvanceNode(currentCounts, headingLevel) ==
    [i \in Levels |->
        IF i > headingLevel
        THEN CounterEntry(0, currentCounts[i].reset)
        ELSE IF i = headingLevel
        THEN CounterEntry(currentCounts[i].reset, currentCounts[i].current + 1)
        ELSE currentCounts[i]]

\* The counter string of applyCurrentCountThroughBoundContext (lines 181-186)
CounterValue(currentCounts, headingLevel, separator) ==
    Join([i \in 1..headingLevel |-> NumToStr(currentCounts[i].current)],
         separator) \o separator

\* applyCurrentCountThroughBoundContext is an arrow function: its `this` is
\* the `this` of the enclosing strict-mode function of line 1, which is called
\* without a receiver, and .call (line 233) does not rebind it.
ArrowThisIsBoundContext == FALSE

\* input.querySelectorAll('h1, h2, h3, h4, h5, h6') (line 231): the heading
\* elements of the page, in document order
RECURSIVE querySelectorAll(_)
querySelectorAll(lines) ==
    IF lines = <<>> THEN <<>>
    ELSE IF MatchesHeadingPattern(Head(lines))
    THEN <<Head(lines)>> \o querySelectorAll(Tail(lines))
    ELSE querySelectorAll(Tail(lines))

\* ---------------------------------------------------------------- state

VARIABLES
    cfg,            \* window.$docsify.autoHeaders after the merge of line 344
    pc,             \* "load", "idle", "parsed", "replace", "nodes", "done", "dead"
    defaultLevels,  \* defaultOptions.levels (line 248)
    options,        \* the `options` of autoHeaders (lines 249-255)
    doc,            \* the markdown the host gave the parse hook for this page
    handed,         \* what the hook that ran last passed to next
    counts,         \* currentCounts of the render in progress
    scoped,         \* scopedTagNames of the render in progress
    idx,            \* lines (nodes) the render in progress has gone through
    out,            \* lines the replace has produced, or the heading nodes
    escaped,        \* the exception that left the last call uncaught, or ""
    warned,         \* the message of the last console.warn of this page, or ""
    nextCalls,      \* calls of next by the hook that ran last
    nDocs           \* pages the parse hook has been given

vars ==
    <<cfg, pc, defaultLevels, options, doc, handed, counts, scoped, idx, out,
      escaped, warned, nextCalls, nDocs>>

NoLevels == [i \in Levels |-> LevelEntry(FALSE, <<>>)]

NoCounts == [i \in Levels |-> CounterEntry(0, 0)]

Config(separator, levels, sidebar, debug) ==
    [separator |-> separator, levels |-> levels, sidebar |-> sidebar,
     debug |-> debug]

InitWith(configs) ==
    /\ cfg \in configs
    /\ pc = "load"
    /\ defaultLevels = UndefinedSpec
    /\ options = [separator |-> <<>>, levels |-> NoLevels, sidebar |-> FALSE,
                  debug |-> FALSE, shouldContinue |-> FALSE]
    /\ doc = <<>>
    /\ handed = Undefined
    /\ counts = NoCounts
    /\ scoped = {}
    /\ idx = 0
    /\ out = <<>>
    /\ escaped = ""
    /\ warned = ""
    /\ nextCalls = 0
    /\ nDocs = 0

\* autoHeaders (lines 245-255, 298, 319): docsify calls the plugin once.  An
\* exception leaves the call before it has registered a hook.
Load ==
    /\ pc = "load"
    /\ LET d == setDefaultOptions(cfg)
           r == validateAndGetHeadingRange(d.levels, d.debug)
           s == validateAndReturnSidebar(d.sidebar)
           thrown == IF d.thrown # "" THEN d.thrown
                     ELSE IF r.thrown # "" THEN r.thrown ELSE s.thrown
       IN  IF thrown # ""
           THEN /\ pc' = "dead"
                /\ escaped' = thrown
                /\ UNCHANGED <<defaultLevels, options>>
           ELSE /\ pc' = "idle"
                /\ escaped' = ""
                /\ defaultLevels' = d.levels
                /\ options' = [separator |-> d.separator, levels |-> r.headings,
                               sidebar |-> s.value, debug |-> d.debug,
                               shouldContinue |-> FALSE]
    /\ UNCHANGED <<cfg, doc, handed, counts, scoped, idx, out, warned,
                   nextCalls, nDocs>>

\* ParseHook with cleanedMarkdown set to the markdown where it is declared
\* (line 259): a failed parse passes the page on as it came.
ParseHookPassingMarkdownOn(markdown) ==
    /\ pc = "idle"
    /\ LET c == checkAutoHeader(markdown, options.debug)
           r == validateAndGetHeadingRange(defaultLevels, options.debug)
           v == getStartingValues(c.signifier, options.separator, options.debug)
           thrown == IF c.thrown # "" THEN c.thrown
                     ELSE IF r.thrown # "" THEN r.thrown ELSE v.thrown
           headingConfiguration ==
               [i \in Levels |->
                   LevelEntry(r.headings[i].inScope, v.startingValues[i])]
       IN  IF thrown # ""
           THEN /\ options' = [options EXCEPT !.shouldContinue = FALSE]
                /\ warned' = thrown
                /\ handed' = Page(markdown)
           ELSE /\ options' = [options EXCEPT !.levels = headingConfiguration,
                                              !.shouldContinue = TRUE]
                /\ warned' = ""
                /\ handed' = Page(DropFirstLine(markdown))
    /\ pc' = "parsed"
    /\ doc' = markdown
    /\ escaped' = ""
    /\ nextCalls' = 1
    /\ nDocs' = nDocs + 1
    /\ UNCHANGED <<cfg, defaultLevels, counts, scoped, idx, out>>

\* The first beforeEach hook (lines 258-295) on the markdown of a page.
ParseHook(markdown) ==
    /\ pc = "idle"
    /\ LET c == checkAutoHeader(markdown, options.debug)
           r == validateAndGetHeadingRange(defaultLevels, options.debug)
           v == getStartingValues(c.signifier, options.separator, options.debug)
           thrown == IF c.thrown # "" THEN c.thrown
                     ELSE IF r.thrown # "" THEN r.thrown ELSE v.thrown
           headingConfiguration ==
               [i \in Levels |->
                   LevelEntry(r.headings[i].inScope, v.startingValues[i])]
       IN  IF thrown # ""
           THEN /\ options' = [options EXCEPT !.shouldContinue = FALSE]
                /\ warned' = thrown
                /\ handed' = Undefined
           ELSE /\ options' = [options EXCEPT !.levels = headingConfiguration,
                                              !.shouldContinue = TRUE]
                /\ warned' = ""
                /\ handed' = Page(DropFirstLine(markdown))
    /\ pc' = "parsed"
    /\ doc' = markdown
    /\ escaped' = ""
    /\ nextCalls' = 1
    /\ nDocs' = nDocs + 1
    /\ UNCHANGED <<cfg, defaultLevels, counts, scoped, idx, out>>

\* The last hook of a page has ended, by returning or by throwing.
EndHook(thrown, caught, output, calls) ==
    /\ pc' = "done"
    /\ escaped' = thrown
    /\ warned' = caught
    /\ handed' = output
    /\ nextCalls' = calls

\* The second beforeEach hook (lines 299-317) up to the call of replace
\* (line 197): the guard, createCountContextObjects (lines 228 and 193), and
\* the TypeError of markdown.replace when the parse hook passed undefined on.
TextHookEnter ==
    /\ pc = "parsed"
    /\ options.sidebar
    /\ LET shown == IF ~options.shouldContinue
                    THEN showErrorMessage(options.debug, "exitingError")
                    ELSE ""
           ctx == createCountContextObjects(options.levels)
       IN  IF shown # ""
           THEN /\ EndHook(shown, warned, handed, 0)
                /\ UNCHANGED <<counts, scoped, idx, out>>
           ELSE /\ counts' = ctx.currentCounts
                /\ scoped' = ctx.scopedTagNames
                /\ idx' = 0
                /\ out' = <<>>
                /\ IF ~handed.defined
                   THEN EndHook("", TypeError, Undefined, 1)
                   ELSE /\ pc' = "replace"
                        /\ UNCHANGED <<escaped, warned, handed, nextCalls>>
    /\ UNCHANGED <<cfg, defaultLevels, options, doc, nDocs>>

\* MatchesAfter with the g flag of headingPattern lost: replace stops after
\* the first match.
MatchesAfterFirstOnly(lines, from) ==
    IF \E i \in 1..from : MatchEnd(lines, i) # 0 THEN {}
    ELSE {i \in (from + 1)..Len(lines) : MatchEnd(lines, i) # 0}

\* The lines after position from, the end of the match before, where a match
\* of headingPattern (line 194, flags gm) starts
MatchesAfter(lines, from) ==
    {i \in (from + 1)..Len(lines) : MatchEnd(lines, i) # 0}

Min(S) == CHOOSE x \in S : \A y \in S : x <= y

\* ReplaceCallback with the test of line 214 put before the reset loop: a
\* heading out of scope leaves the counts alone.
ReplaceCallbackCountingScopedOnly ==
    /\ pc = "replace"
    /\ MatchesAfter(handed.lines, idx) # {}
    /\ LET m == Min(MatchesAfter(handed.lines, idx))
           end == MatchEnd(handed.lines, m)
           advanced == IF ScopedHas(scoped, handed.lines[m].hashes)
                       THEN AdvanceText(counts, handed.lines[m].hashes)
                       ELSE counts
       IN  /\ counts' = advanced
           /\ out' = out \o SubSeq(handed.lines, idx + 1, m - 1)
                         \o ReplaceMatch(SubSeq(handed.lines, m, end), advanced,
                                         scoped, options.separator)
           /\ idx' = end
    /\ UNCHANGED <<cfg, pc, defaultLevels, options, doc, handed, scoped,
                   escaped, warned, nextCalls, nDocs>>

\* One call of the callback of markdown.replace (lines 197-222): the next
\* match in source order; the text before it is copied as it is.
ReplaceCallback ==
    /\ pc = "replace"
    /\ MatchesAfter(handed.lines, idx) # {}
    /\ LET m == Min(MatchesAfter(handed.lines, idx))
           end == MatchEnd(handed.lines, m)
           advanced == AdvanceText(counts, handed.lines[m].hashes)
       IN  /\ counts' = advanced
           /\ out' = out \o SubSeq(handed.lines, idx + 1, m - 1)
                         \o ReplaceMatch(SubSeq(handed.lines, m, end), advanced,
                                         scoped, options.separator)
           /\ idx' = end
    /\ UNCHANGED <<cfg, pc, defaultLevels, options, doc, handed, scoped,
                   escaped, warned, nextCalls, nDocs>>

\* replace returns (line 224) and the hook passes the result on (line 315).
TextHookFinish ==
    /\ pc = "replace"
    /\ MatchesAfter(handed.lines, idx) = {}
    /\ LET result == out \o SubSeq(handed.lines, idx + 1, Len(handed.lines))
       IN  /\ out' = result
           /\ idx' = Len(handed.lines)
           /\ EndHook("", warned, Page(result), 1)
    /\ UNCHANGED <<cfg, defaultLevels, options, doc, counts, scoped, nDocs>>

\* The afterEach hook (lines 320-338) up to the forEach of line 232: the
\* guard, createCountContextObjects (line 228) and the heading elements of the
\* page the host rendered from what the parse hook passed on.
TreeHookEnter ==
    /\ pc = "parsed"
    /\ ~options.sidebar
    /\ LET shown == IF ~options.shouldContinue
                    THEN showErrorMessage(options.debug, "exitingError")
                    ELSE ""
           ctx == createCountContextObjects(options.levels)
       IN  IF shown # ""
           THEN /\ EndHook(shown, warned, handed, 0)
                /\ UNCHANGED <<counts, scoped, idx, out>>
           ELSE /\ counts' = ctx.currentCounts
                /\ scoped' = ctx.scopedTagNames
                /\ idx' = 0
                /\ out' = querySelectorAll(handed.lines)
                /\ pc' = "nodes"
                /\ UNCHANGED <<escaped, warned, handed, nextCalls>>
    /\ UNCHANGED <<cfg, defaultLevels, options, doc, nDocs>>

\* One call of applyCurrentCountThroughBoundContext (lines 162-190) by the
\* forEach of lines 232-238.  Destructuring `this` (line 163) throws when
\* `this` is undefined; the hook catches it (line 333) and passes its unset
\* output on.
ApplyNode ==
    /\ pc = "nodes"
    /\ idx < Len(out)
    /\ IF ~ArrowThisIsBoundContext
       THEN /\ EndHook("", TypeError, Undefined, 1)
            /\ UNCHANGED <<counts, idx, out>>
       ELSE LET node == out[idx + 1]
                advanced == AdvanceNode(counts, node.hashes)
            IN  /\ counts' = advanced
                /\ idx' = idx + 1
                /\ out' = [out EXCEPT ![idx + 1] =
                             IF ScopedHas(scoped, node.hashes)
                             THEN [node EXCEPT !.label =
                                     CounterValue(advanced, node.hashes,
                                                  options.separator)]
                             ELSE node]
                /\ UNCHANGED <<pc, escaped, warned, handed, nextCalls>>
    /\ UNCHANGED <<cfg, defaultLevels, options, doc, scoped, nDocs>>

\* The forEach is over: the html branch of applyScopedHeadingCounts returns
\* nothing, and the hook passes that on (line 336).
TreeHookFinish ==
    /\ pc = "nodes"
    /\ idx = Len(out)
    /\ EndHook("", warned, Undefined, 1)
    /\ UNCHANGED <<cfg, defaultLevels, options, doc, counts, scoped, idx, out,
                   nDocs>>

\* The host loads a page and runs the parse hook on its markdown.
LoadPage(pages, maxDocs) ==
    /\ pc = "idle"
    /\ nDocs < maxDocs
    /\ \E markdown \in pages : ParseHook(markdown)

\* The host leaves the page and loads another one: the hooks registered at
\* lines 258, 299 and 320 run once per page, and nothing of a page outlives it
\* but the `options` of the closure.
NextPage(maxDocs) ==
    /\ pc = "done"
    /\ nDocs < maxDocs
    /\ pc' = "idle"
    /\ doc' = <<>>
    /\ handed' = Undefined
    /\ counts' = NoCounts
    /\ scoped' = {}
    /\ idx' = 0
    /\ out' = <<>>
    /\ escaped' = ""
    /\ warned' = ""
    /\ nextCalls' = 0
    /\ UNCHANGED <<cfg, defaultLevels, options, nDocs>>

\* ------------------------------------------------------- specifications

\* The sequences over S of length at most n
SeqsUpTo(S, n) == UNION {[1..k -> S] : k \in 0..n}

\* The signifier text of a token sequence written with an inline separator
SignifierText(tokens, inlineSeparator) == Join(tokens, <<inlineSeparator>>)

\* The lifecycle specification: every kind of configuration, pages with and
\* without a well-formed signifier, several pages one after the other.
Configs ==
    {Config(sep, lv, sb, dbg) :
        sep \in {"dash", ",", ""},
        lv \in {NumberSpec(6), ObjectSpec(2, 3)},
        sb \in {"true", "false"},
        dbg \in BOOLEAN}
    \cup
    {Config("dash", lv, "yes", dbg) :
        lv \in {NumberSpec(6), NumberSpec(7), ObjectSpec(3, 2), ObjectSpec(0, 2),
                NonNumericObjectSpec, StringSpec, UndefinedSpec},
        dbg \in BOOLEAN}

Tokens == {<<"1">>, <<"2">>, <<"A">>}

Signifiers ==
    {SignifierText(toks, sep) :
        toks \in SeqsUpTo(Tokens, MaxTokens) \ {<<>>}, sep \in {"-", ","}}

FirstLines ==
    {<<SignifierLine(s)>> : s \in Signifiers}
    \cup {<<BlankLine, SignifierLine(t)>> : t \in Tokens}
    \cup {<<TextLine>>}

BodyLines == {HeadingLine(1), HeadingLine(2), TextLine}

Docs == {first \o body : first \in FirstLines, body \in SeqsUpTo(BodyLines, MaxLines)}

Init == InitWith(Configs)

Next ==
    \/ Load
    \/ LoadPage(Docs, MaxDocs)
    \/ TextHookEnter
    \/ ReplaceCallback
    \/ TextHookFinish
    \/ TreeHookEnter
    \/ ApplyNode
    \/ TreeHookFinish
    \/ NextPage(MaxDocs)

Spec == Init /\ [][Next]_vars

\* The rendering specification: one page with a numeric signifier and up to
\* MaxHeadings headings of the levels 1..3, under level ranges that start at
\* those levels, rendered by the text renderer.
RenderConfigs ==
    {Config("-", lv, "true", TRUE) :
        lv \in {NumberSpec(6)}
               \cup {ObjectSpec(lo, lo + more) : lo \in 1..3, more \in 0..2}}

SeedTokens == {<<"1">>, <<"2">>}

RenderDocs ==
    {<<SignifierLine(SignifierText(toks, "-"))>> \o body :
        toks \in SeqsUpTo(SeedTokens, MaxSeedTokens) \ {<<>>},
        body \in SeqsUpTo({HeadingLine(1), HeadingLine(2), HeadingLine(3)},
                          MaxHeadings)}

InitRender == InitWith(RenderConfigs)

NextRender ==
    \/ Load
    \/ LoadPage(RenderDocs, 1)
    \/ TextHookEnter
    \/ ReplaceCallback
    \/ TextHookFinish

SpecRender == InitRender /\ [][NextRender]_vars

\* The seeding specification: one page whose signifier has up to MaxSeedLen
\* tokens, all of digits or all of letters, written with either separator,
\* under either separator and debug setting.
SeedConfigs ==
    {Config(sep, NumberSpec(6), "true", dbg) : sep \in {"-", ","}, dbg \in BOOLEAN}

SeedNumerals == {<<"2">>, <<"1", "2">>}

SeedLetters == {<<"B">>, <<"a", "b">>}

SeedSeqs ==
    (SeqsUpTo(SeedNumerals, MaxSeedLen) \cup SeqsUpTo(SeedLetters, MaxSeedLen))
        \ {<<>>}

SeedDocs ==
    {<<SignifierLine(SignifierText(toks, sep)), HeadingLine(1)>> :
        toks \in SeedSeqs, sep \in {"-", ","}}

InitSeed == InitWith(SeedConfigs)

NextSeed ==
    \/ Load
    \/ LoadPage(SeedDocs, 1)
    \/ TextHookEnter
    \/ ReplaceCallback
    \/ TextHookFinish

SpecSeed == InitSeed /\ [][NextSeed]_vars

\* The level specification: every number and every {start, finish} pair
\* of numbers up to MaxBound as levels, and the values that are neither, with
\* pages of headings of all six levels, rendered by the text renderer.
LevelSpecs ==
    {NumberSpec(n) : n \in 0..MaxBound}
    \cup {ObjectSpec(s, f) : s \in 0..MaxBound, f \in 0..MaxBound}
    \cup {NonNumericObjectSpec, StringSpec, UndefinedSpec}

LevelConfigs == {Config("-", lv, "true", dbg) : lv \in LevelSpecs, dbg \in BOOLEAN}

LevelDocs ==
    {<<SignifierLine(<<"1">>)>> \o body :
        body \in SeqsUpTo({HeadingLine(lv) : lv \in Levels}, MaxScopeLines)}

InitLevels == InitWith(LevelConfigs)

NextLevels ==
    \/ Load
    \/ LoadPage(LevelDocs, 1)
    \/ TextHookEnter
    \/ ReplaceCallback
    \/ TextHookFinish

SpecLevels == InitLevels /\ [][NextLevels]_vars

\* The line specification: one page of headings, lines of hashes alone,
\* text lines and blank lines, rendered by the text renderer.
LineConfigs ==
    {Config("-", lv, "true", TRUE) :
        lv \in {NumberSpec(6), ObjectSpec(1, 1), ObjectSpec(2, 3)}}

TextLines ==
    {HeadingLine(1), HeadingLine(2), HashesLine(1), HashesLine(2), TextLine,
     BlankLine}

LineDocs ==
    {<<SignifierLine(<<"1">>)>> \o body : body \in SeqsUpTo(TextLines, MaxTextLines)}

InitLines == InitWith(LineConfigs)

NextLines ==
    \/ Load
    \/ LoadPage(LineDocs, 1)
    \/ TextHookEnter
    \/ ReplaceCallback
    \/ TextHookFinish

SpecLines == InitLines /\ [][NextLines]_vars

\* ------------------------------------------------------------ vocabulary

\* The page the render hook of the current page was given to label: the page
\* without its first line.
Body == DropFirstLine(doc)

\* The text render of the current page has returned its result.
TextDone == pc = "done" /\ options.sidebar /\ escaped = "" /\ handed.defined

\* The configured level range, read from the configuration itself.
RangeStart == IF defaultLevels.type = "number" THEN 1 ELSE defaultLevels.start

RangeFinish ==
    IF defaultLevels.type = "number" THEN defaultLevels.n ELSE defaultLevels.finish

InRange(level) == RangeStart <= level /\ level <= RangeFinish

\* The positions of the heading lines of a page
HeadingPositions(lines) == {i \in 1..Len(lines) : lines[i].kind = "heading"}

\* The lines (nodes) the render in progress has gone through or returned
Rendered == IF pc = "nodes" THEN SubSeq(out, 1, idx) ELSE out

\* The level of the heading the callback of replace is given next
NextLevel == handed.lines[Min(MatchesAfter(handed.lines, idx))].hashes

\* The input line (node) behind position i of Rendered
InputAt(i) == IF options.sidebar THEN Body[i] ELSE querySelectorAll(Body)[i]

\* ---------------------------------------------------------------- claims

ExamplePage ==
    <<SignifierLine(<<"1", "-", "1", "-", "1">>), HeadingLine(1), HeadingLine(2),
      HeadingLine(3), HeadingLine(1), HeadingLine(2)>>

ExampleLabels ==
    <<<<"1", "-">>, <<"1", "-", "1", "-">>, <<"1", "-", "1", "-", "1", "-">>,
      <<"2", "-">>, <<"2", "-", "1", "-">>>>

LabelsOf(lines) == [i \in 1..Len(lines) |-> lines[i].label]

\* C4: when the text renderer processes a heading at level L, every deeper
\* level gets as current the reset value it held just before, and 0 as reset;
\* and seed 1,1,1 with headings h1,h2,h3,h1,h2, all levels in range, gives the
\* labels 1-, 1-1-, 1-1-1-, 2-, 2-1-.
C4_DeeperLevelsReset ==
    /\ [][(pc = "replace" /\ pc' = "replace" /\ idx' # idx) =>
            \A lv \in Levels :
                lv > NextLevel =>
                    /\ counts'[lv].current = counts[lv].reset
                    /\ counts'[lv].reset = 0]_vars
    /\ [](TextDone /\ doc = ExamplePage /\ InRange(1) /\ InRange(2) /\ InRange(3)
            => LabelsOf(out) = ExampleLabels)

\* C4 witness: the render of the example page has returned with the labels
\* of the claim, its second h1 having reset the levels 2 and 3.
C4_Witness ==
    /\ TextDone
    /\ doc = ExamplePage
    /\ InRange(1) /\ InRange(2) /\ InRange(3)
    /\ LabelsOf(out) = ExampleLabels
    /\ counts[2].current = 1 /\ counts[3].current = 0

Components(label) == Split(label, options.separator)

\* The positions before j of the headings of level k of a page
EarlierAt(lines, j, k) == {i \in 1..(j - 1) : lines[i].hashes = k}

Max(S) == CHOOSE x \in S : \A y \in S : x >= y

\* The levels of the headings rise strictly up to some heading and fall
\* strictly after it.
RiseThenFall(lines) ==
    /\ lines # <<>>
    /\ \E p \in 1..Len(lines) :
          /\ \A i \in 1..(p - 1) : lines[i].hashes < lines[i + 1].hashes
          /\ \A i \in p..(Len(lines) - 1) : lines[i].hashes > lines[i + 1].hashes

\* The first heading of its level on the page shows the seed token of the
\* level as its last component; a later one shows the last component of the
\* heading of its level before it, plus 1.
LastComponentAsOutline(lines, j) ==
    LET L == lines[j].hashes
        parts == Components(lines[j].label)
        earlier == EarlierAt(lines, j, L)
    IN  /\ Len(parts) = L + 1
        /\ parts[L + 1] = <<>>
        /\ IF earlier = {}
           THEN parts[L] = options.levels[L].counter
           ELSE parseInt(parts[L]).value =
                   parseInt(Components(lines[Max(earlier)].label)[L]).value + 1

\* A shallower component repeats the last component of the enclosing heading
\* of that level.
ShallowerComponentsAsOutline(lines, j) ==
    \A k \in 1..(lines[j].hashes - 1) :
        EarlierAt(lines, j, k) # {} =>
            /\ Len(Components(lines[j].label)) >= k
            /\ Components(lines[j].label)[k] =
                  Components(lines[Max(EarlierAt(lines, j, k))].label)[k]

\* C1: for a numeric seed and headings whose levels rise and then fall, all
\* levels in range, the labels are conventional outline numbers: the first
\* heading at a level shows the level's seed token as its last component,
\* each following sibling the previous sibling's last component plus 1, and
\* the shallower components repeat the numbers of the enclosing headings.
C1_OutlineNumbering ==
    (/\ TextDone
     /\ options.shouldContinue
     /\ \A lv \in Levels : InRange(lv) /\ isAllNumeric(options.levels[lv].counter)
     /\ \A i \in 1..Len(Body) : Body[i].kind = "heading"
     /\ RiseThenFall(Body))
    => \A j \in 1..Len(out) :
          /\ LastComponentAsOutline(out, j)
          /\ ShallowerComponentsAsOutline(out, j)

\* C5: for every numeric seed and every heading sequence, the first heading
\* processed at level L that gets a label has the literal seed token of level
\* L as the level-L component of that label.
C5_FirstHeadingShowsSeedToken ==
    (/\ pc \in {"replace", "done"}
     /\ options.sidebar
     /\ options.shouldContinue
     /\ \A lv \in Levels : isAllNumeric(options.levels[lv].counter))
    => \A j \in HeadingPositions(out) :
          (EarlierAt(out, j, out[j].hashes) = {} /\ out[j].label # <<>>) =>
              /\ Len(Components(out[j].label)) >= out[j].hashes
              /\ Components(out[j].label)[out[j].hashes] =
                    options.levels[out[j].hashes].counter

\* C6: with a signifier whose tokens are all alphabetic the label components
\* are letters, and the first heading at a level shows the seed letter of the
\* level.
C6_AlphabeticLabels ==
    (/\ TextDone
     /\ options.shouldContinue
     /\ \A lv \in Levels : isAllAlphabetic(options.levels[lv].counter))
    => \A j \in HeadingPositions(out) :
          out[j].label # <<>> =>
              /\ Len(Components(out[j].label)) >= out[j].hashes
              /\ \A k \in 1..out[j].hashes :
                    isAllAlphabetic(Components(out[j].label)[k])
              /\ EarlierAt(out, j, out[j].hashes) = {} =>
                    Components(out[j].label)[out[j].hashes] =
                       options.levels[out[j].hashes].counter

\* C2: the tree renderer and the text renderer label the same headings of a
\* page with the same strings: when the tree render of a page has ended, its
\* heading nodes are the headings of the text render of the same page.
C2_TreeRendersAsText ==
    (pc = "done" /\ ~options.sidebar /\ options.shouldContinue /\ escaped = "")
    => out = querySelectorAll(
                parseMarkdown(Body, options.separator, options.levels))

\* A validation has failed: the configuration at load, or the signifier of
\* the current page.
ValidationFailed ==
    \/ pc = "dead"
    \/ pc \in {"parsed", "replace", "nodes", "done"} /\ ~options.shouldContinue

\* C7: with debug=false, when a validation fails no exception escapes and
\* what is passed on to the next step is the original text of the page.
C7_SilentPassThrough ==
    (~cfg.debug /\ ValidationFailed)
    => /\ escaped = ""
       /\ pc # "dead"
       /\ handed = Page(doc)

\* The counter state a render of the current page starts from when it is
\* seeded from the page alone: the start values of the page's own signifier,
\* and nothing for a page that has no well-formed signifier.
OwnSeed ==
    LET c == checkAutoHeader(doc, options.debug)
        v == getStartingValues(c.signifier, options.separator, options.debug)
    IN  IF c.thrown = "" /\ v.thrown = ""
        THEN [defined |-> TRUE,
              levels |-> [i \in Levels |->
                            LevelEntry(InRange(i), v.startingValues[i])]]
        ELSE [defined |-> FALSE, levels |-> NoLevels]

\* A render hook has created its counter state and processed no heading yet.
AtRenderStart ==
    /\ pc \in {"replace", "nodes"} \/ (pc = "done" /\ nextCalls = 1)
    /\ IF options.sidebar THEN HeadingPositions(out) = {} ELSE idx = 0

\* C8: the counter state at the start of every render is the seed of the
\* page being rendered, whatever pages came before, and the labels of a page
\* are those its own signifier and headings give under the configuration.
C8_NoStateAcrossPages ==
    /\ AtRenderStart =>
          counts = createCountContextObjects(OwnSeed.levels).currentCounts
    /\ TextDone =>
          /\ OwnSeed.defined
          /\ handed.lines = parseMarkdown(Body, options.separator, OwnSeed.levels)

\* The signifier of the current page has a token of digits and a token of
\* letters (the tokens of the generated pages are single characters).
MixedSignifier ==
    /\ doc # <<>>
    /\ LET first == TrimStart(doc)
       IN  /\ first # <<>>
           /\ Head(first).kind = "sig"
           /\ \E i, j \in 1..Len(Head(first).body) :
                 IsDigit(Head(first).body[i]) /\ IsLetter(Head(first).body[j])

\* C10: for a signifier that mixes digit tokens and letter tokens seeding
\* fails with the malformed-signifier error, no counter state is produced and
\* the page is not labeled.
C10_MixedSignifierRejected ==
    MixedSignifier =>
        /\ ~options.shouldContinue
        /\ pc = "parsed" => warned = "misconfiguredSignifier"
        /\ \A i \in HeadingPositions(out) : out[i].label = <<>>

\* The signifier of the current page is the token sequence toks written with
\* the configured separator.
SignifierIs(toks) ==
    /\ doc # <<>>
    /\ doc[1].kind = "sig"
    /\ doc[1].body = Join(toks, options.separator)

\* The token the padding gives a level the signifier has no token for
PadToken(toks) == IF isAllNumeric(toks[1]) THEN <<"1">> ELSE <<"A">>

\* C11: seeding from a signifier of digit tokens, or of letter tokens, gives
\* the six levels their start tokens without an error: level i gets token i
\* of the signifier, a level beyond the signifier's length gets "1" (digits) or
\* "A" (letters), and a seventh token is left out; the single token 2 gives
\* 2,1,1,1,1,1.
C11_SixStartTokens ==
    pc \in {"parsed", "replace", "done"} =>
        /\ \A toks \in SeedSeqs :
              SignifierIs(toks) =>
                  /\ options.shouldContinue
                  /\ warned = ""
                  /\ DOMAIN options.levels = 1..6
                  /\ \A i \in 1..6 :
                        options.levels[i].counter =
                           IF i <= Len(toks) THEN toks[i] ELSE PadToken(toks)
        /\ SignifierIs(<<<<"2">>>>) =>
              [i \in 1..6 |-> options.levels[i].counter] =
                 <<<<"2">>, <<"1">>, <<"1">>, <<"1">>, <<"1">>, <<"1">>>>

\* C11 witness: the parse hook has seeded the levels from a signifier of
\* seven letter tokens.
C11_Witness ==
    /\ pc = "parsed"
    /\ options.shouldContinue
    /\ \E toks \in SeedSeqs :
          SignifierIs(toks) /\ Len(toks) = 7 /\ isAllAlphabetic(toks[1])

\* The bounds of the configured level specification
SpecStart == IF cfg.levels.type = "number" THEN 1 ELSE cfg.levels.start

SpecFinish ==
    IF cfg.levels.type = "number" THEN cfg.levels.n ELSE cfg.levels.finish

\* The configured level specification is a number or a pair of numbers.
NumericLevelSpec ==
    cfg.levels.type = "number" \/ (cfg.levels.type = "object" /\ cfg.levels.numeric)

ValidLevelSpec ==
    /\ NumericLevelSpec
    /\ 1 <= SpecStart /\ SpecStart <= SpecFinish /\ SpecFinish <= 6

\* C12: for every valid level specification the plugin loads and holds a
\* table over the levels 1..6 that is true at level i exactly when
\* start <= i <= finish; for a single number n it is the table the resolver
\* gives {start: 1, finish: n}.
C12_LevelTable ==
    (pc # "load" /\ ValidLevelSpec) =>
        /\ pc # "dead"
        /\ DOMAIN options.levels = 1..6
        /\ \A i \in 1..6 :
              options.levels[i].inScope <=> (SpecStart <= i /\ i <= SpecFinish)
        /\ cfg.levels.type = "number" =>
              LET pair == validateAndGetHeadingRange(ObjectSpec(1, cfg.levels.n),
                                                     cfg.debug)
              IN  /\ pair.thrown = ""
                  /\ \A i \in 1..6 :
                        options.levels[i].inScope = pair.headings[i].inScope

\* C12 witness: a page was rendered under the number 3, its h3 labeled from
\* the table and its h4 not.
C12_Witness ==
    /\ TextDone
    /\ cfg.levels = NumberSpec(3)
    /\ \E i, j \in HeadingPositions(out) :
          /\ out[i].hashes = 3 /\ out[i].label # <<>>
          /\ out[j].hashes = 4 /\ out[j].label = <<>>

\* The configured level specification is inverted or has a bound outside
\* 1..6.
InvalidLevelSpec ==
    /\ NumericLevelSpec
    /\ \/ SpecStart > SpecFinish
       \/ SpecStart < 1 \/ SpecStart > 6
       \/ SpecFinish < 1 \/ SpecFinish > 6

\* C13: for every level specification that is inverted or has a bound
\* outside 1..6 the resolver fails and no level table is made, so that no
\* hook ever runs with a table of such a specification.
C13_InvalidLevelsRejected ==
    InvalidLevelSpec =>
        /\ pc \in {"load", "dead"}
        /\ options.levels = NoLevels

\* The position of the first line of a page that is not blank
FirstTextPosition(lines) == Len(lines) - Len(TrimStart(lines)) + 1

\* A page without its line at position p
WithoutLine(lines, p) == SubSeq(lines, 1, p - 1) \o SubSeq(lines, p + 1, Len(lines))

\* C14: when the trimmed text of a page starts with the signifier and the
\* parse succeeds, the parse hook passes on the page without the line that
\* holds the signifier, every other line as it was and where it was.
C14_SignifierLineRemoved ==
    (/\ pc = "parsed"
     /\ options.shouldContinue
     /\ TrimStart(doc) # <<>>
     /\ Head(TrimStart(doc)).kind = "sig")
    => /\ handed.defined
       /\ handed.lines = WithoutLine(doc, FirstTextPosition(doc))

\* C15: the text render changes heading lines only: its output has as many
\* lines as its input, a line that is not a heading (hashes, white space,
\* text) is in the output as it was and where it was, and a heading keeps its
\* hashes and its text.
C15_OnlyHeadingLinesChange ==
    (TextDone /\ options.shouldContinue) =>
        /\ Len(out) = Len(Body)
        /\ \A i \in 1..Len(Body) :
              IF Body[i].kind = "heading"
              THEN /\ out[i].kind = "heading"
                   /\ out[i].hashes = Body[i].hashes
                   /\ out[i].body = Body[i].body
              ELSE out[i] = Body[i]

\* The callback of replace has run on one more heading.
CallbackStep == pc = "replace" /\ pc' = "replace" /\ idx' # idx

\* The line the callback of replace has just returned
LastOut == out[Len(out)]

\* C16: the label of a heading of level L has L components, component k the
\* current of level k once the current of level L went up by exactly 1; they
\* are joined by the separator and one more separator ends the label.
C16_LabelComponents ==
    [][(CallbackStep /\ LastOut'.label # <<>>) =>
          LET L == NextLevel
              label == LastOut'.label
          IN  /\ LastOut'.hashes = L
              /\ counts'[L].current = counts[L].current + 1
              /\ Len(Components(label)) = L + 1
              /\ \A k \in 1..L :
                    Components(label)[k] = NumToStr(counts'[k].current)
              /\ Components(label)[L + 1] = <<>>
              /\ label = Join([k \in 1..L |-> NumToStr(counts'[k].current)],
                              options.separator) \o options.separator]_vars

\* C16 witness: an h3 carries a label of three components.
C16_Witness ==
    /\ pc = "replace"
    /\ out # <<>>
    /\ LastOut.hashes = 3
    /\ LastOut.label # <<>>
    /\ Len(Components(LastOut.label)) = 4

\* The page of the example of C18: seed all 1 and headings h1,h2,h1,h2
ScopeExamplePage ==
    <<SignifierLine(<<"1">>), HeadingLine(1), HeadingLine(2), HeadingLine(1),
      HeadingLine(2)>>

ScopeExampleLabels == <<<<>>, <<"1", "-", "1", "-">>, <<>>, <<"2", "-", "1", "-">>>>

\* C18: a heading of a level out of scope moves the counts as one in scope
\* does (every deeper level takes its reset value as current and 0 as reset,
\* its own current goes up by 1) and gets no label; under levels {2, 3} and
\* seed all 1, the headings h1,h2,h1,h2 give the h2s the labels 1-1- and 2-1-.
C18_OutOfScopeAdvances ==
    /\ [][(CallbackStep /\ ~InRange(NextLevel)) =>
             /\ counts'[NextLevel].current = counts[NextLevel].current + 1
             /\ \A lv \in Levels :
                   lv > NextLevel =>
                       counts'[lv] = CounterEntry(0, counts[lv].reset)
             /\ LastOut' = handed.lines[idx']]_vars
    /\ [](TextDone /\ doc = ScopeExamplePage /\ cfg.levels = ObjectSpec(2, 3)
            => LabelsOf(out) = ScopeExampleLabels)

\* C18 witness: the example page was rendered under levels {2, 3}: its second
\* h2 shows the count 2 of the h1s, which are out of scope.
C18_Witness ==
    /\ TextDone
    /\ doc = ScopeExamplePage
    /\ cfg.levels = ObjectSpec(2, 3)
    /\ out[1].label = <<>> /\ out[3].label = <<>>
    /\ out[4].label = <<"2", "-", "1", "-">>

\* The start token of level 1 as a number
SeedOfLevelOne == parseInt(options.levels[1].counter).value

\* The headings of level 1 the render has gone through
LevelOneSoFar == {i \in 1..idx : handed.lines[i].hashes = 1}

\* C19: the callback of replace on a heading of level L leaves current and
\* reset of every shallower level and the reset of level L as they were; the
\* count of level 1 is never reset: after n headings of level 1 it is the
\* start token of level 1 plus n minus 1.
C19_ShallowerLevelsUnchanged ==
    /\ [][CallbackStep =>
             /\ \A lv \in Levels : lv < NextLevel => counts'[lv] = counts[lv]
             /\ counts'[NextLevel].reset = counts[NextLevel].reset]_vars
    /\ []((pc \in {"replace", "done"} /\ options.shouldContinue) =>
             /\ counts[1].reset = SeedOfLevelOne - 1
             /\ counts[1].current =
                   SeedOfLevelOne + Cardinality(LevelOneSoFar) - 1)

\* C19 witness: after three headings of level 1 with deeper ones between
\* them, under the start token 2, the count of level 1 is 4.
C19_Witness ==
    /\ pc = "replace"
    /\ SeedOfLevelOne = 2
    /\ Cardinality(LevelOneSoFar) = 3
    /\ \E i \in 1..idx : handed.lines[i].hashes > 1
    /\ counts[1].current = 4

\* C17: after a failed parse of a page, the render hook of that page puts no
\* label on it: under debug it ends with the exiting error before it has
\* made a counter state, and without debug it goes through no heading with
\* the levels and start tokens an earlier page left, and passes on no label.
C17_NoLabelAfterFailedParse ==
    (pc \in {"replace", "nodes", "done"} /\ ~options.shouldContinue) =>
        /\ pc # "replace"
        /\ idx = 0
        /\ \A i \in HeadingPositions(out) : out[i].label = <<>>
        /\ handed.defined =>
              \A i \in HeadingPositions(handed.lines) : handed.lines[i].label = <<>>
        /\ options.debug =>
              /\ pc = "done"
              /\ escaped = "exitingError"
              /\ counts = NoCounts /\ out = <<>>

\* C17 witness: without debug, the render hook has ended on a second page
\* whose parse failed and which has a heading in range, after a first page
\* left its start tokens in options.levels.
C17_Witness ==
    /\ pc = "done"
    /\ nDocs = 2
    /\ ~options.debug
    /\ ~options.shouldContinue
    /\ options.levels[1].counter # <<>>
    /\ \E i \in HeadingPositions(doc) : InRange(doc[i].hashes)
    /\ nextCalls = 1

\* C20: every run of a hook, of the parse hook and of a render hook, calls
\* next exactly once, whether it succeeds or fails and under either debug
\* setting.
C20_NextCalledOnce ==
    pc \in {"parsed", "done"} => nextCalls = 1

====
